---- MODULE Spec2Model ----
(***************************************************************************)
(* kigen: marker-block scanner, splitter, renderer and recombiner          *)
(* (src/kigen.py).  Strings are sequences of one-character strings, so     *)
(* that index/strip/split/splitlines/join are computed as Python computes  *)
(* them.                                                                   *)
(***************************************************************************)
EXTENDS Integers, Sequences, FiniteSets, TLC

\* ------------------------------------------------------------------ bounds
MaxLines == 4
MaxArgs == 2
MaxFiles == 2
MaxPaths == 2

\* ------------------------------------------------------- program constants
START_MARKER == <<"K", "I", "G", "E", "N", "_", "s", "t", "a", "r", "t">>

STOP_MARKER == <<"K", "I", "G", "E", "N", "_", "e", "n", "d">>

\* ------------------------------------------------------- Python str helpers
NL == "\n"

SP == " "

COLON == ":"

\* the characters str.strip() removes that occur in the modelled alphabet
Whitespace == {" ", "\t"}

Min(a, b) == IF a < b THEN a ELSE b

\* p occurs in s starting at (1-based) position i
MatchAt(s, p, i) ==
  /\ i >= 1
  /\ i + Len(p) - 1 <= Len(s)
  /\ \A j \in 1..Len(p) : s[i + j - 1] = p[j]

\* `p in s`
Contains(s, p) == \E i \in 1..(Len(s) + 1) : MatchAt(s, p, i)

\* s.index(p) as a 1-based position (0 when absent, where Python raises)
Index(s, p) ==
  IF Contains(s, p)
    THEN CHOOSE i \in 1..(Len(s) + 1) :
           /\ MatchAt(s, p, i)
           /\ \A j \in 1..(i - 1) : ~MatchAt(s, p, j)
    ELSE 0

RECURSIVE LStrip(_)
LStrip(s) ==
  IF s # <<>> /\ Head(s) \in Whitespace THEN LStrip(Tail(s)) ELSE s

RECURSIVE RStrip(_)
RStrip(s) ==
  IF s # <<>> /\ s[Len(s)] \in Whitespace
    THEN RStrip(SubSeq(s, 1, Len(s) - 1))
    ELSE s

\* s.strip()
Strip(s) == RStrip(LStrip(s))

\* s.split(c) for a one-character separator: empty fields are kept
RECURSIVE SplitAcc(_, _, _)
SplitAcc(s, c, cur) ==
  IF s = <<>> THEN <<cur>>
  ELSE IF Head(s) = c THEN <<cur>> \o SplitAcc(Tail(s), c, <<>>)
  ELSE SplitAcc(Tail(s), c, Append(cur, Head(s)))

Split(s, c) == SplitAcc(s, c, <<>>)

\* s.splitlines(): no trailing empty line, '' gives []
RECURSIVE SplitLinesAcc(_, _)
SplitLinesAcc(s, cur) ==
  IF s = <<>> THEN (IF cur = <<>> THEN <<>> ELSE <<cur>>)
  ELSE IF Head(s) = NL THEN <<cur>> \o SplitLinesAcc(Tail(s), <<>>)
  ELSE SplitLinesAcc(Tail(s), Append(cur, Head(s)))

SplitLines(s) == SplitLinesAcc(s, <<>>)

\* sep.join(parts) for a one-character separator
RECURSIVE Join(_, _)
Join(parts, c) ==
  IF parts = <<>> THEN <<>>
  ELSE IF Len(parts) = 1 THEN parts[1]
  ELSE parts[1] \o <<c>> \o Join(Tail(parts), c)

\* ------------------------------------------------------------ command parser
\* split_marker(line): (comment marker, rest of the line after the marker)
split_marker(line) ==
  LET i == Index(line, START_MARKER)
  IN  << Strip(SubSeq(line, 1, i - 1)),
         Strip(SubSeq(line, i + Len(START_MARKER), Len(line))) >>

\* result[k] = v on an OrderedDict kept as a sequence of <<k, v>> pairs
DictSet(d, k, v) ==
  IF \E i \in 1..Len(d) : d[i][1] = k
    THEN [i \in 1..Len(d) |-> IF d[i][1] = k THEN <<k, v>> ELSE d[i]]
    ELSE Append(d, <<k, v>>)

\* `k, v = arg.split(':')` unpacks only a two-element list
ArgOK(arg) == Len(Split(arg, COLON)) = 2

RECURSIVE extract_args_acc(_, _)
extract_args_acc(raw_args, res) ==
  IF raw_args = <<>> THEN res
  ELSE LET kv == Split(Head(raw_args), COLON)
       IN  extract_args_acc(Tail(raw_args), DictSet(res, kv[1], kv[2]))

extract_args(raw_args) == extract_args_acc(raw_args, <<>>)

\* the tokens of the line after the marker: function, *raw_args
CommandTokens(line) == Split(Strip(split_marker(line)[2]), SP)

\* extract_command(line) raises ValueError (from extract_args)
CommandFails(line) ==
  \E i \in 2..Len(CommandTokens(line)) : ~ArgOK(CommandTokens(line)[i])

\* extract_command(line): commentmarker and ModuleCmd(function, args)
extract_command(line) ==
  LET toks == CommandTokens(line)
  IN  [ commentmarker |-> split_marker(line)[1],
        command |-> [ function |-> toks[1],
                      args |-> extract_args(Tail(toks)) ] ]

RECURSIVE ArgStrs(_)
ArgStrs(args) ==
  IF args = <<>> THEN <<>>
  ELSE << args[1][1] \o <<COLON>> \o args[1][2] >> \o ArgStrs(Tail(args))

RECURSIVE Reverse(_)
Reverse(q) == IF q = <<>> THEN <<>> ELSE Append(Reverse(Tail(q)), Head(q))

\* faulty variant: the arguments come out in another order than they were given
command_to_cmdstr_reordered(command) ==
  Join(<<command.function>> \o Reverse(ArgStrs(command.args)), SP)

command_to_cmdstr(command) ==
  Join(<<command.function>> \o ArgStrs(command.args), SP)

block_to_start_string(block) ==
  block.commentmark \o <<SP>> \o START_MARKER \o <<SP>>
    \o command_to_cmdstr(block.command)

block_to_end_string(block) ==
  block.commentmark \o <<SP>> \o STOP_MARKER

\* ------------------------------------------------------------------ state
VARIABLES
  pc, err,
  \* render_file / extract_blocks locals
  file_data, idx, in_block, block_start, command, commentmarker, result,
  blocks, chunks, expanded_blocks, recombined_file,
  modules,
  \* main / load_multiple_module_dirs
  fs, mod_paths, path_i, input_files, file_i, output_dir, disk, outdisk,
  disk_before, outdisk_before,
  \* command round trip
  cline, cparts, cpc, cparsed, cout

scanVars == <<idx, in_block, block_start, command, commentmarker, result>>

renderVars == <<blocks, chunks, expanded_blocks, recombined_file>>

mainVars == <<fs, mod_paths, path_i, input_files, file_i, output_dir,
              disk, outdisk, disk_before, outdisk_before>>

cmdVars == <<cline, cparts, cpc, cparsed, cout>>

vars == <<pc, err, file_data, scanVars, renderVars, modules, mainVars, cmdVars>>

\* Python's None for a variable holding a sequence: <<>> is None, <<x>> is x
None == <<>>

Some(x) == <<x>>

\* command = None / commentmarker = None before the first start marker
NoCommand == [function |-> <<>>, args |-> <<>>]

\* no exception raised so far
NoError == [name |-> "", args |-> <<>>]

\* ------------------------------------------------------------ block scanner
AutogenBlock(start, end, cmd, mark) ==
  [start |-> start, end |-> end, command |-> cmd, commentmark |-> mark]

\* One iteration of the loop of extract_blocks on `line` (0-based index i),
\* from the locals s.  raise is the exception's name, "" when none is raised.
scan_line(s, i, line) ==
  LET hasStart == Contains(line, START_MARKER)
      hasStop == Contains(line, STOP_MARKER)
      parsed == extract_command(line)
      s1 == IF hasStart
              THEN [s EXCEPT !.in_block = TRUE,
                             !.block_start = i,
                             !.commentmarker = parsed.commentmarker,
                             !.command = parsed.command]
              ELSE s
      s2 == IF hasStop
              THEN [s1 EXCEPT !.in_block = FALSE,
                              !.result = Append(s1.result,
                                  AutogenBlock(s1.block_start, i,
                                               s1.command, s1.commentmarker))]
              ELSE s1
  IN  IF hasStart /\ s.in_block
        THEN [raise |-> "NestedBlockError", args |-> <<i, s.block_start>>,
              st |-> s]
      ELSE IF hasStart /\ CommandFails(line)
        THEN [raise |-> "ValueError", args |-> <<>>,
              st |-> [s EXCEPT !.in_block = TRUE, !.block_start = i]]
      ELSE IF hasStop /\ ~s1.in_block
        THEN [raise |-> "DanglingBlockEnd", args |-> <<i>>, st |-> s1]
      ELSE [raise |-> "", args |-> <<>>, st |-> s2]

ScanLocals ==
  [in_block |-> in_block, block_start |-> block_start, command |-> command,
   commentmarker |-> commentmarker, result |-> result]

SetScanLocals(s) ==
  /\ in_block' = s.in_block
  /\ block_start' = s.block_start
  /\ command' = s.command
  /\ commentmarker' = s.commentmarker
  /\ result' = s.result

file_lines == SplitLines(file_data)

\* extract_blocks: a loop iteration that raises nothing
ScanLine ==
  /\ pc = "scan"
  /\ idx < Len(file_lines)
  /\ LET r == scan_line(ScanLocals, idx, file_lines[idx + 1])
     IN  /\ r.raise = ""
         /\ SetScanLocals(r.st)
  /\ idx' = idx + 1
  /\ UNCHANGED <<pc, err, file_data, renderVars, modules, mainVars, cmdVars>>

\* extract_blocks: a loop iteration that raises; the exception leaves
\* render_file (and main), nothing is returned
ScanRaise ==
  /\ pc = "scan"
  /\ idx < Len(file_lines)
  /\ LET r == scan_line(ScanLocals, idx, file_lines[idx + 1])
     IN  /\ r.raise # ""
         /\ SetScanLocals(r.st)
         /\ err' = [name |-> r.raise, args |-> r.args]
  /\ pc' = "error"
  /\ UNCHANGED <<idx, file_data, renderVars, modules, mainVars, cmdVars>>

\* ------------------------------------------------------------- file splitter
\* file_lines[a:b] on 0-based indices
Slice(lines, a, b) == SubSeq(lines, a + 1, Min(b, Len(lines)))

RECURSIVE split_acc(_, _, _)
split_acc(lines, blks, index) ==
  IF blks = <<>> THEN <<>>
  ELSE << Join(Slice(lines, index, Head(blks).start), NL) >>
         \o split_acc(lines, Tail(blks), Head(blks).end + 1)

split_file_at_blocks(data, blks) == split_acc(SplitLines(data), blks, 0)

\* extract_blocks returns result; render_file then splits the text
ScanReturn ==
  /\ pc = "scan"
  /\ idx = Len(file_lines)
  /\ blocks' = Some(result)
  /\ chunks' = split_file_at_blocks(file_data, result)
  /\ expanded_blocks' = <<>>
  /\ pc' = "render"
  /\ UNCHANGED <<err, file_data, scanVars, recombined_file, modules,
                 mainVars, cmdVars>>

\* ------------------------------------------------------------ block renderer
\* what expand_template may return: the template engine is external
Bodies == { <<>>, <<"x">> }

\* render_block raises: the name of the exception, "" when it returns
render_block_raises(block, mods) ==
  IF block.command.function \notin DOMAIN mods
    THEN "UnknownExpansionModule"
  ELSE IF mods[block.command.function].module # "dict"
    THEN "InvalidContent"
  ELSE ""

\* render_block's return value when the template renders to body
render_block(block, body) ==
  Join(<<block_to_start_string(block), body, block_to_end_string(block)>>, NL)

\* the list comprehension of render_file, one block at a time
RenderBlock ==
  /\ pc = "render"
  /\ Len(expanded_blocks) < Len(blocks[1])
  /\ LET block == blocks[1][Len(expanded_blocks) + 1]
     IN  /\ render_block_raises(block, modules) = ""
         /\ \E body \in Bodies :
              expanded_blocks' = Append(expanded_blocks,
                                        render_block(block, body))
  /\ UNCHANGED <<pc, err, file_data, scanVars, blocks, chunks,
                 recombined_file, modules, mainVars, cmdVars>>

RenderRaise ==
  /\ pc = "render"
  /\ Len(expanded_blocks) < Len(blocks[1])
  /\ LET block == blocks[1][Len(expanded_blocks) + 1]
     IN  /\ render_block_raises(block, modules) # ""
         /\ err' = [name |-> render_block_raises(block, modules),
                    args |-> <<block.command.function>>]
  /\ pc' = "error"
  /\ UNCHANGED <<file_data, scanVars, renderVars, modules, mainVars, cmdVars>>

\* ---------------------------------------------------------------- recombiner
\* itertools.chain(*zip(a, b)): pairs up to the shorter of the two lists
RECURSIVE ChainZip(_, _)
ChainZip(a, b) ==
  IF a = <<>> \/ b = <<>> THEN <<>>
  ELSE <<Head(a), Head(b)>> \o ChainZip(Tail(a), Tail(b))

recombine(chnks, blks) == Join(ChainZip(chnks, blks), NL)

\* render_file returns the recombined text
Recombine ==
  /\ pc = "render"
  /\ Len(expanded_blocks) = Len(blocks[1])
  /\ recombined_file' = Some(recombine(chunks, expanded_blocks))
  /\ pc' = "returned"
  /\ UNCHANGED <<err, file_data, scanVars, blocks, chunks, expanded_blocks,
                 modules, mainVars, cmdVars>>

\* ------------------------------------------------------------ module loading
\* module names, in the sorted order in which pkgutil.iter_modules lists them
NameOrder == << <<"f">>, <<"g">> >>

ModNames == {NameOrder[i] : i \in 1..Len(NameOrder)}

\* ModuleSpace.modules: base names having both a .py and a .jinja2 file
enumerate_modules_in_dir(path) ==
  [base_path |-> path,
   modules |-> (DOMAIN fs[path].py) \cap fs[path].jinja]

\* {name: module}; a module is known here by what its get_content returns
load_modules(path, known_modules) ==
  [k \in (DOMAIN fs[path].py) \cap known_modules |-> fs[path].py[k]]

build_module_dict(path) ==
  LET mod_space == enumerate_modules_in_dir(path)
      loader_dict == load_modules(path, mod_space.modules)
  IN  [k \in DOMAIN loader_dict |->
         [name |-> k, base_path |-> mod_space.base_path,
          module |-> loader_dict[k]]]

\* faulty variant: the `if k in result` test is missing, the later directory wins
Conflicts_unchecked(local_mod, res) == {}

\* the keys of local_mod already in res, in iteration order
Conflicts(local_mod, res) ==
  {i \in 1..Len(NameOrder) :
     NameOrder[i] \in (DOMAIN local_mod) \cap (DOMAIN res)}

\* the dictionary res after `result[k] = v` for every item of local_mod
Merge(res, local_mod) ==
  [k \in (DOMAIN res) \cup (DOMAIN local_mod) |->
     IF k \in DOMAIN local_mod THEN local_mod[k] ELSE res[k]]

\* load_multiple_module_dirs: one directory registered without conflict
LoadDir ==
  /\ pc = "load"
  /\ path_i < Len(mod_paths)
  /\ LET local_mod == build_module_dict(mod_paths[path_i + 1])
     IN  /\ Conflicts(local_mod, modules) = {}
         /\ modules' = Merge(modules, local_mod)
  /\ path_i' = path_i + 1
  /\ UNCHANGED <<pc, err, file_data, scanVars, renderVars, fs, mod_paths,
                 input_files, file_i, output_dir, disk, outdisk,
                 disk_before, outdisk_before, cmdVars>>

\* load_multiple_module_dirs: the first key already registered raises
LoadConflict ==
  /\ pc = "load"
  /\ path_i < Len(mod_paths)
  /\ LET local_mod == build_module_dict(mod_paths[path_i + 1])
         cs == Conflicts(local_mod, modules)
     IN  /\ cs # {}
         /\ LET k == NameOrder[CHOOSE i \in cs : \A j \in cs : i <= j]
            IN  err' = [name |-> "ModuleConflict",
                        args |-> <<k, local_mod[k].base_path,
                                   modules[k].base_path>>]
  /\ pc' = "error"
  /\ UNCHANGED <<file_data, scanVars, renderVars, modules, mainVars, cmdVars>>

\* load_multiple_module_dirs returns; main enters its loop over input_files
LoadReturn ==
  /\ pc = "load"
  /\ path_i = Len(mod_paths)
  /\ pc' = "next"
  /\ UNCHANGED <<err, file_data, scanVars, renderVars, modules, mainVars,
                 cmdVars>>

\* ---------------------------------------------------------------------- main
\* faulty variant: the output file is opened for writing before the text is rendered
ReadFile_truncating ==
  /\ pc = "next"
  /\ file_i < Len(input_files)
  /\ file_data' = disk[input_files[file_i + 1]]
  /\ idx' = 0
  /\ in_block' = FALSE
  /\ block_start' = 0
  /\ command' = NoCommand
  /\ commentmarker' = <<>>
  /\ result' = <<>>
  /\ blocks' = None
  /\ chunks' = <<>>
  /\ expanded_blocks' = <<>>
  /\ recombined_file' = None
  /\ disk_before' = disk
  /\ outdisk_before' = outdisk
  /\ IF output_dir
       THEN /\ outdisk' = [outdisk EXCEPT ![input_files[file_i + 1]] = Some(<<>>)]
            /\ disk' = disk
       ELSE /\ disk' = [disk EXCEPT ![input_files[file_i + 1]] = <<>>]
            /\ outdisk' = outdisk
  /\ pc' = "scan"
  /\ UNCHANGED <<err, modules, fs, mod_paths, path_i, input_files, file_i,
                 output_dir, cmdVars>>

\* read_and_render_file opens the file and render_file starts scanning it
ReadFile ==
  /\ pc = "next"
  /\ file_i < Len(input_files)
  /\ file_data' = disk[input_files[file_i + 1]]
  /\ idx' = 0
  /\ in_block' = FALSE
  /\ block_start' = 0
  /\ command' = NoCommand
  /\ commentmarker' = <<>>
  /\ result' = <<>>
  /\ blocks' = None
  /\ chunks' = <<>>
  /\ expanded_blocks' = <<>>
  /\ recombined_file' = None
  /\ disk_before' = disk
  /\ outdisk_before' = outdisk
  /\ pc' = "scan"
  /\ UNCHANGED <<err, modules, fs, mod_paths, path_i, input_files, file_i,
                 output_dir, disk, outdisk, cmdVars>>

\* write_file(file_data, ifile, output_dir), then the next input file
WriteFile ==
  /\ pc = "returned"
  /\ file_i < Len(input_files)
  /\ LET ifile == input_files[file_i + 1]
     IN  IF output_dir
           THEN /\ outdisk' = [outdisk EXCEPT ![ifile] = recombined_file]
                /\ disk' = disk
           ELSE /\ disk' = [disk EXCEPT ![ifile] = recombined_file[1]]
                /\ outdisk' = outdisk
  /\ file_i' = file_i + 1
  /\ pc' = "next"
  /\ UNCHANGED <<err, file_data, scanVars, renderVars, modules, fs,
                 mod_paths, path_i, input_files, output_dir, disk_before,
                 outdisk_before, cmdVars>>

\* the loop over input_files is exhausted
MainReturn ==
  /\ pc = "next"
  /\ file_i = Len(input_files)
  /\ pc' = "done"
  /\ UNCHANGED <<err, file_data, scanVars, renderVars, modules, mainVars,
                 cmdVars>>

\* -------------------------------------------------------- command round trip
\* extract_command on the start line cline
CmdParse ==
  /\ cpc = "parse"
  /\ ~CommandFails(cline)
  /\ cparsed' = extract_command(cline)
  /\ cpc' = "rebuild"
  /\ UNCHANGED <<pc, err, file_data, scanVars, renderVars, modules, mainVars,
                 cline, cparts, cout>>

\* extract_command raises ValueError
CmdParseRaise ==
  /\ cpc = "parse"
  /\ CommandFails(cline)
  /\ cpc' = "error"
  /\ UNCHANGED <<pc, err, file_data, scanVars, renderVars, modules, mainVars,
                 cline, cparts, cparsed, cout>>

\* block_to_start_string on the block carrying the parsed command
CmdRebuild ==
  /\ cpc = "rebuild"
  /\ cout' = block_to_start_string(
               AutogenBlock(0, 0, cparsed.command, cparsed.commentmarker))
  /\ cpc' = "done"
  /\ UNCHANGED <<pc, err, file_data, scanVars, renderVars, modules, mainVars,
                 cline, cparts, cparsed>>

\* ------------------------------------------------------------------- inputs
SeqsUpTo(S, n) == UNION {[1..k -> S] : k \in 0..n}

RECURSIVE Concat(_)
Concat(ss) == IF ss = <<>> THEN <<>> ELSE Head(ss) \o Concat(Tail(ss))

StartLine == <<"#", " ">> \o START_MARKER \o <<" ", "f", " ", "k", ":", "v">>

EndLine == <<"#", " ">> \o STOP_MARKER

\* both markers on one line
BothLine == <<"#", " ">> \o STOP_MARKER \o <<" ">> \o START_MARKER \o <<" ", "f">>

\* an argument token without a colon
BadArgLine == <<"#", " ">> \o START_MARKER \o <<" ", "f", " ", "k">>

Lines == { <<"A">>, <<>>, StartLine, EndLine, BothLine, BadArgLine }

\* file texts: up to MaxLines lines, with or without a final newline
Texts ==
  { Join(ls, NL) \o t : ls \in SeqsUpTo(Lines, MaxLines), t \in {<<>>, <<NL>>} }

ExpMod(name, path, kind) == [name |-> name, base_path |-> path, module |-> kind]

\* registries render_file is run with: f renders, f returns no dict, no f
ModuleDicts ==
  { [k \in {<<"f">>} |-> ExpMod(k, 1, "dict")],
    [k \in {<<"f">>} |-> ExpMod(k, 1, "nondict")],
    [k \in {<<"g">>} |-> ExpMod(k, 1, "dict")] }

\* the module directories on disk: .py files (with what get_content
\* returns) and .jinja2 files, by base name
FSContent ==
  << [py |-> [k \in {<<"f">>, <<"g">>} |-> "dict"], jinja |-> {<<"f">>}],
     [py |-> [k \in {<<"f">>} |-> "nondict"], jinja |-> {<<"f">>}],
     [py |-> [k \in {<<"g">>} |-> "dict"], jinja |-> {<<"f">>, <<"g">>}] >>

\* the input files on disk
DiskContent ==
  << Join(<< <<"A">>, StartLine, <<"o">>, EndLine, <<"B">> >>, NL) \o <<NL>>,
     Join(<< StartLine, StartLine, EndLine >>, NL),
     Join(<< <<"A">>, EndLine >>, NL),
     <<"A", NL>> >>

\* start lines by their parts: lead, comment mark, separators before and
\* after the marker, function, arguments (separator, key, value), trail
ArgParts ==
  [sep : {<<" ">>, <<" ", " ">>},
   key : {<<"k">>, <<"a">>},
   val : {<<"v">>, <<>>, <<"v", ":", "w">>}]

CmdParts ==
  [lead : {<<>>, <<" ">>},
   mark : {<<>>, <<"#">>},
   sep1 : {<<>>, <<" ">>},
   sep2 : {<<>>, <<" ">>},
   function : {<<>>, <<"f">>},
   args : SeqsUpTo(ArgParts, MaxArgs),
   trail : {<<>>, <<"\t">>}]

ArgLine(a) == a.sep \o a.key \o <<COLON>> \o a.val

LineOf(p) ==
  p.lead \o p.mark \o p.sep1 \o START_MARKER \o p.sep2 \o p.function
    \o Concat([i \in 1..Len(p.args) |-> ArgLine(p.args[i])]) \o p.trail

\* ------------------------------------------------------------ specifications
ScanInit ==
  /\ idx = 0
  /\ in_block = FALSE
  /\ block_start = 0
  /\ command = NoCommand
  /\ commentmarker = <<>>
  /\ result = <<>>
  /\ blocks = None
  /\ chunks = <<>>
  /\ expanded_blocks = <<>>
  /\ recombined_file = None

\* main is not running: no directories, no files
MainIdle ==
  /\ fs = <<>>
  /\ mod_paths = <<>>
  /\ path_i = 0
  /\ input_files = <<>>
  /\ file_i = 0
  /\ output_dir = FALSE
  /\ disk = <<>>
  /\ outdisk = <<>>
  /\ disk_before = <<>>
  /\ outdisk_before = <<>>

CmdIdle ==
  /\ cline = <<>>
  /\ cparts = <<>>
  /\ cpc = "idle"
  /\ cparsed = <<>>
  /\ cout = <<>>

\* render_file(input_file_text, modules) on one text
Init ==
  /\ pc = "scan"
  /\ err = NoError
  /\ file_data \in Texts
  /\ modules \in ModuleDicts
  /\ ScanInit
  /\ MainIdle
  /\ CmdIdle

Next ==
  \/ ScanLine
  \/ ScanRaise
  \/ ScanReturn
  \/ RenderBlock
  \/ RenderRaise
  \/ Recombine

Spec == Init /\ [][Next]_vars

\* main(input_files, module_path, output_dir)
InitMain ==
  /\ pc = "load"
  /\ err = NoError
  /\ file_data = <<>>
  /\ modules = <<>>
  /\ ScanInit
  /\ fs = FSContent
  /\ mod_paths \in SeqsUpTo(DOMAIN FSContent, MaxPaths)
  /\ path_i = 0
  /\ input_files \in SeqsUpTo(DOMAIN DiskContent, MaxFiles)
  /\ file_i = 0
  /\ output_dir \in BOOLEAN
  /\ disk = DiskContent
  /\ outdisk = [p \in DOMAIN DiskContent |-> None]
  /\ disk_before = disk
  /\ outdisk_before = outdisk
  /\ CmdIdle

NextMain ==
  \/ LoadDir
  \/ LoadConflict
  \/ LoadReturn
  \/ ReadFile
  \/ ScanLine
  \/ ScanRaise
  \/ ScanReturn
  \/ RenderBlock
  \/ RenderRaise
  \/ Recombine
  \/ WriteFile
  \/ MainReturn

SpecMain == InitMain /\ [][NextMain]_vars

\* extract_command followed by block_to_start_string on one start line
InitCmd ==
  /\ pc = "idle"
  /\ err = NoError
  /\ file_data = <<>>
  /\ modules = <<>>
  /\ ScanInit
  /\ MainIdle
  /\ cparts \in CmdParts
  /\ cline = LineOf(cparts)
  /\ cpc = "parse"
  /\ cparsed = <<>>
  /\ cout = <<>>

NextCmd ==
  \/ CmdParse
  \/ CmdParseRaise
  \/ CmdRebuild

SpecCmd == InitCmd /\ [][NextCmd]_vars

\* ==================================================================== claims
\* the lines of `lines` (0-based positions) lying outside every block
RECURSIVE OutsideFrom(_, _, _)
OutsideFrom(lines, blks, i) ==
  IF i >= Len(lines) THEN <<>>
  ELSE (IF \E b \in 1..Len(blks) : blks[b].start <= i /\ i <= blks[b].end
          THEN <<>>
          ELSE <<lines[i + 1]>>)
       \o OutsideFrom(lines, blks, i + 1)

OutsideLines(lines, blks) == OutsideFrom(lines, blks, 0)

\* a occurs in b as a subsequence (in order, other elements in between)
RECURSIVE IsSubseq(_, _)
IsSubseq(a, b) ==
  IF a = <<>> THEN TRUE
  ELSE IF b = <<>> THEN FALSE
  ELSE IF Head(a) = Head(b) THEN IsSubseq(Tail(a), Tail(b))
  ELSE IsSubseq(a, Tail(b))

\* C1: whenever render_file returns, its output contains, unchanged and in
\* their original order, all input lines outside the blocks: those before
\* the first block, between blocks, and after the last block's end line.
C1_OutsideLinesKept ==
  pc = "returned" =>
    IsSubseq(OutsideLines(file_lines, blocks[1]),
             SplitLines(recombined_file[1]))

\* chunk i (0 <= i <= N) as the File Splitter contract states it
ExpectedChunk(lines, blks, i) ==
  LET from == IF i = 0 THEN 0 ELSE blks[i].end + 1
      to == IF i = Len(blks) THEN Len(lines) ELSE blks[i + 1].start
  IN  Join(Slice(lines, from, to), NL)

\* C2: for the N blocks extract_blocks returns, split_file_at_blocks returns
\* exactly N+1 chunks, chunk i being the lines after block i-1's end line and
\* before block i's start line (to the end of the file for i = N).
C2_ChunksPerBlock ==
  blocks # None =>
    /\ Len(chunks) = Len(blocks[1]) + 1
    /\ \A i \in 0..Len(blocks[1]) :
         chunks[i + 1] = ExpectedChunk(file_lines, blocks[1], i)

\* a block rebuilt from itself: start string, original body lines, end string
IdentityRender(lines, block) ==
  Join(<<block_to_start_string(block)>>
         \o Slice(lines, block.start + 1, block.end)
         \o <<block_to_end_string(block)>>, NL)

\* C3: for every text whose scan succeeds, recombining the chunks with every
\* block rebuilt from its original block gives the text back.
C3_IdentityRoundTrip ==
  blocks # None =>
    recombine(split_file_at_blocks(file_data, blocks[1]),
              [i \in 1..Len(blocks[1]) |->
                 IdentityRender(file_lines, blocks[1][i])]) = file_data

NoMarkers(lines) ==
  \A i \in 1..Len(lines) :
    ~Contains(lines[i], START_MARKER) /\ ~Contains(lines[i], STOP_MARKER)

\* C4: a text without any marker scans to no blocks, splits into exactly one
\* chunk equal to the whole file, and render_file returns the text itself.
C4_NoMarkersIdentity ==
  (NoMarkers(file_lines) /\ blocks # None) =>
    /\ blocks[1] = <<>>
    /\ chunks = <<file_data>>
    /\ (pc = "returned" => recombined_file[1] = file_data)

NoColonOrSpace(s) == \A i \in 1..Len(s) : s[i] \notin {COLON, SP}

\* the start line has the form <mark> KIGEN_start <function>( <key>:<value>)*
Canonical(p) ==
  /\ p.lead = <<>>
  /\ p.sep1 = <<SP>>
  /\ p.sep2 = <<SP>>
  /\ p.function # <<>>
  /\ p.trail = <<>>
  /\ \A i \in 1..Len(p.args) :
       /\ p.args[i].sep = <<SP>>
       /\ NoColonOrSpace(p.args[i].key)
       /\ NoColonOrSpace(p.args[i].val)
  /\ \A i, j \in 1..Len(p.args) : p.args[i].key = p.args[j].key => i = j

\* C5 as stated: any start-marker line whose argument keys and values hold no
\* spaces or colons is rebuilt character for character.
C5_AnyStartLine ==
  (cpc \in {"done", "error"}
     /\ \A i \in 1..Len(cparts.args) :
          NoColonOrSpace(cparts.args[i].key) /\ NoColonOrSpace(cparts.args[i].val))
    => (cpc = "done" /\ cout = cline)

\* C5 amended: a start line in canonical form (comment marker without
\* surrounding whitespace, single spaces around the marker and between the
\* tokens, a non-empty function, distinct keys, no colon or whitespace in keys
\* and values, nothing after the last token) parses, and is rebuilt character
\* for character.
C5_CanonicalRoundTrip ==
  (cpc # "idle" /\ Canonical(cparts)) =>
    /\ cpc # "error"
    /\ cpc = "done" => cout = cline

C5_Witness ==
  /\ cpc = "done"
  /\ Canonical(cparts)
  /\ cparts.mark = <<"#">>
  /\ Len(cparts.args) = MaxArgs
  /\ \A i \in 1..Len(cparts.args) : cparts.args[i].val # <<>>
  /\ cout = cline

\* C6: a line holding the start marker met while a block is open raises
\* NestedBlockError, a line holding the end marker met while no block is open
\* raises DanglingBlockEnd; either way the scan stops at that line and no
\* block list is returned.
C6_ScanErrors ==
  [][ (pc = "scan" /\ idx < Len(file_lines)) =>
        LET line == file_lines[idx + 1]
        IN  /\ (Contains(line, START_MARKER) /\ in_block) =>
                 /\ pc' = "error"
                 /\ err'.name = "NestedBlockError"
                 /\ idx' = idx
                 /\ blocks' = None
            /\ (Contains(line, STOP_MARKER) /\ ~in_block) =>
                 /\ pc' = "error"
                 /\ err'.name = "DanglingBlockEnd"
                 /\ idx' = idx
                 /\ blocks' = None ]_vars

\* C7: the blocks extract_blocks returns satisfy
\* start_0 < end_0 < start_1 < end_1 < ...
C7_StrictlyIncreasing ==
  blocks # None =>
    \A i \in 1..Len(blocks[1]) :
      /\ blocks[1][i].start < blocks[1][i].end
      /\ i > 1 => blocks[1][i - 1].end < blocks[1][i].start

\* the errors of scanning, module lookup and rendering of one file
FileErrors ==
  {"NestedBlockError", "DanglingBlockEnd", "ValueError",
   "UnknownExpansionModule", "InvalidContent"}

\* C8: when scanning, lookup or rendering of an input file raises, nothing is
\* written for it: the disk and the output directory are as they were before
\* that file was read, and main takes no further step (no later file).
C8_NoWriteOnError ==
  (pc = "error" /\ err.name \in FileErrors) =>
    /\ disk = disk_before
    /\ outdisk = outdisk_before
    /\ file_i < Len(input_files)
    /\ ~ENABLED NextMain

C8_Witness ==
  /\ pc = "error"
  /\ err.name = "UnknownExpansionModule"
  /\ file_i > 0
  /\ disk # DiskContent

\* the module names a directory defines: a .py and a .jinja2 of that name
Defines(d) == {k \in ModNames : k \in DOMAIN fs[d].py /\ k \in fs[d].jinja}

\* C9: ModuleConflict is raised, naming the module and both directories, as
\* soon as the directory being scanned defines a name registered from an
\* earlier one; on normal return each name maps to one ExpansionModule whose
\* base_path is the single listed directory defining it.
C9_ConflictOrUnique ==
  /\ err.name = "ModuleConflict" =>
       /\ path_i < Len(mod_paths)
       /\ err.args[2] = mod_paths[path_i + 1]
       /\ err.args[1] \in Defines(err.args[2])
       /\ \E j \in 1..path_i :
            /\ mod_paths[j] = err.args[3]
            /\ err.args[1] \in Defines(mod_paths[j])
  /\ pc # "error" =>
       \A i, j \in 1..path_i :
         i # j => Defines(mod_paths[i]) \cap Defines(mod_paths[j]) = {}
  /\ pc \notin {"load", "error", "idle"} =>
       /\ path_i = Len(mod_paths)
       /\ DOMAIN modules = UNION {Defines(mod_paths[j]) : j \in 1..path_i}
       /\ \A k \in DOMAIN modules :
            /\ modules[k].name = k
            /\ Cardinality({j \in 1..path_i : k \in Defines(mod_paths[j])}) = 1
            /\ k \in Defines(modules[k].base_path)
            /\ \E j \in 1..path_i : mod_paths[j] = modules[k].base_path

C9_Witness ==
  /\ err.name = "ModuleConflict"
  /\ err.args[2] # err.args[3]
  /\ path_i > 0

\* C10: a text that ends inside an open block is an error: extract_blocks
\* does not return normally for it.
C10_UnterminatedIsError ==
  ~(blocks # None /\ in_block)

====
